---- MODULE Spec2Model ----
(***************************************************************************)
(* momentum-backend: the calendar synchronizer of src/api/index.js.        *)
(*                                                                         *)
(* POST /api/sync-calendar (the sync executor), GET /api/sync-all-users   *)
(* (the fan-out scheduler) and GET /api/callback (the writer of the        *)
(* credential store) are modelled as handlers that run to their next await *)
(* and are resumed by the store, the calendar provider or the HTTP layer.  *)
(* All handlers of one process share the module-level oauth2Client.        *)
(***************************************************************************)
EXTENDS Naturals, Integers, Sequences, FiniteSets, TLC

(* ------------------------------------------------------------------ *)
(* Bounds                                                             *)
(* ------------------------------------------------------------------ *)

\* sync invocations (POST /api/sync-calendar requests) in one behaviour
MaxInv == 2

\* length of a stored task list
MaxTasks == 2

\* length of a task identifier the event identifier is computed for on its own
MaxIdLen == 3

(* ------------------------------------------------------------------ *)
(* Values                                                             *)
(* ------------------------------------------------------------------ *)

Users == {"u1", "u2"}

\* a missing document, a missing field, a missing request body entry
Absent == "absent"

\* the settings documents a user may own; sync reads "integrations" only
DocNames == {"integrations", "profile"}

\* a settings document: missing, without the googleCalendar map, or with the map
\* callback stores for user u (its token opens u's calendar)
NoDoc == [exists |-> FALSE, googleCalendar |-> FALSE, access_token |-> ""]
NoGoogle == [exists |-> TRUE, googleCalendar |-> FALSE, access_token |-> ""]
TokenOf(u) == [exists |-> TRUE, googleCalendar |-> TRUE, access_token |-> u]

\* the tasks document: missing, without the list field, or with a list
NoTasksDoc == [exists |-> FALSE, hasList |-> FALSE, list |-> <<>>]
NoListDoc == [exists |-> TRUE, hasList |-> FALSE, list |-> <<>>]
ListDoc(l) == [exists |-> TRUE, hasList |-> TRUE, list |-> l]

AlnumChars ==
  {"a","b","c","d","e","f","g","h","i","j","k","l","m",
   "n","o","p","q","r","s","t","u","v","w","x","y","z",
   "A","B","C","D","E","F","G","H","I","J","K","L","M",
   "N","O","P","Q","R","S","T","U","V","W","X","Y","Z",
   "0","1","2","3","4","5","6","7","8","9"}

IsAlnum(c) == c \in AlnumChars

\* the replace without its g flag: only the first match is removed
SanitizeFirstOnly(id) ==
  LET bad == {k \in DOMAIN id : ~IsAlnum(id[k])}
  IN IF bad = {} THEN id
     ELSE LET first == CHOOSE k \in bad : \A j \in bad : k <= j
          IN [k \in 1..(Len(id) - 1) |-> IF k < first THEN id[k] ELSE id[k + 1]]

\* task.id.replace(/[^a-zA-Z0-9]/g, "")
Sanitize(id) == SelectSeq(id, IsAlnum)

EventPrefix == <<"m","o","m","e","n","t","u","m">>

\* `momentum${task.id.replace(/[^a-zA-Z0-9]/g, "")}`
EventId(id) == EventPrefix \o Sanitize(id)

\* JavaScript truthiness of a string-or-missing field
Truthy(v) == v \notin {Absent, ""}

\* new Date(`${dueDate}T${time}`).toISOString() returns (does not throw RangeError)
ValidDates == {"2024-01-01"}
ValidTimes == {"09:00", "10:00"}
ParsesAsDate(dueDate, time) == dueDate \in ValidDates /\ time \in ValidTimes

Task(id, st, en, comp, due) ==
  [id |-> id, startTime |-> st, endTime |-> en, completed |-> comp, dueDate |-> due]

(* ------------------------------------------------------------------ *)
(* Pure parts of the sync executor                                    *)
(* ------------------------------------------------------------------ *)

\* the filter without its completed test
EligibleIgnoringCompleted(task) ==
  Truthy(task.startTime) /\ Truthy(task.endTime)

\* (task) => task.startTime && task.endTime && !task.completed
Eligible(task) ==
  Truthy(task.startTime) /\ Truthy(task.endTime) /\ ~task.completed

\* tasksDoc.data().list || []
AllTasks(doc) == IF doc.hasList THEN doc.list ELSE <<>>

\* allTasks.filter(...)
TasksToSync(allTasks) == SelectSeq(allTasks, Eligible)

\* task.text, undefined when the task has none
TextOf(task) == IF "text" \in DOMAIN task THEN task.text ELSE Absent

\* const event = { summary, start: { dateTime }, end: { dateTime }, ... }: the
\* fields taken from the task (description's category and the fixed time zone
\* are left out)
Event(task) ==
  [summary |-> TextOf(task),
   start |-> <<task.dueDate, task.startTime>>,
   end |-> <<task.dueDate, task.endTime>>]

\* no event under an identifier
NoEvent == [summary |-> Absent, start |-> <<>>, end |-> <<>>]

\* the event literal is built without a throw: both toISOString() calls return
EventBuilds(task) ==
  ParsesAsDate(task.dueDate, task.startTime) /\ ParsesAsDate(task.dueDate, task.endTime)

(* ------------------------------------------------------------------ *)
(* State                                                              *)
(* ------------------------------------------------------------------ *)

VARIABLES
  settings,     \* credential store: settings[u][d], document users/u/settings/d
  tasks,        \* task store: tasks[u], document users/u/data/tasks
  provider,     \* calendar provider: provider[c][e], events of calendar c with id e
  oauthCreds,   \* credentials held by the module-level oauth2Client
  inv,          \* inv[i]: the i-th POST /api/sync-calendar invocation
  cron,         \* the GET /api/sync-all-users invocation
  triggers,     \* triggers[u]: fetch calls for u issued and not yet delivered or lost
  calc,         \* a pure part of the executor applied to one input on its own
  events,       \* events[c][e]: content of the event calendar c holds under id e
  callback      \* the GET /api/callback invocation

vars == <<settings, tasks, provider, oauthCreds, inv, cron, triggers, calc,
          events, callback>>

Slots == 1..MaxInv

NoCreds == "none"
NoResp == [status |-> 0, kind |-> "none", count |-> 0, errors |-> <<>>]
NoPending == [cal |-> NoCreds, eid |-> <<>>, tid |-> <<>>, event |-> NoEvent]

\* an invocation: where it stands (pc), the handler's locals (uid, tasksToSync as
\* eligible, the rest of the loop as toSync, syncedCount, the insert awaited and its
\* answer), what it wrote to the console (log), the response it sent (resp) and
\* how many it sent (sent);
\* before, reads and attempts record the calendar at the request, the store
\* documents read (with what the store held then) and the inserts made
IdleInv ==
  [pc |-> "idle", uid |-> Absent, src |-> "none", eligible |-> <<>>, toSync |-> <<>>,
   syncedCount |-> 0, pending |-> NoPending, result |-> "none",
   before |-> <<>>, reads |-> <<>>, attempts |-> <<>>, log |-> <<>>, resp |-> NoResp,
   sent |-> 0]

NoFetches == [u \in Users |-> 0]

\* the scheduler's invocation: the authorization header it came with (auth),
\* whether the discovery query was run (queried), userIds as found, uniqueUserIds
\* as unique, the fetch calls made per user (fetched) and the response sent
IdleCron ==
  [pc |-> "idle", auth |-> Absent, queried |-> FALSE, unique |-> <<>>, found |-> <<>>,
   fetched |-> NoFetches, resp |-> NoResp]

NoCalc == [op |-> "none", in |-> <<>>, out |-> <<>>]

\* the callback's invocation: the code and state of its query string (code names
\* the Google account that granted access) and the response sent
IdleCallback == [pc |-> "idle", code |-> Absent, uid |-> Absent, resp |-> NoResp]

\* a response: its status, which of the handler's messages it is, the count the
\* message interpolates, and the per-task errors it lists (no message lists any)
Resp(status, kind, count) ==
  [status |-> status, kind |-> kind, count |-> count, errors |-> <<>>]

\* the slot the next POST /api/sync-calendar request runs in
FreeSlot(i) == inv[i].pc = "idle" /\ \A j \in Slots : j < i => inv[j].pc # "idle"

(* ------------------------------------------------------------------ *)
(* The calendar provider                                              *)
(* ------------------------------------------------------------------ *)

\* calendar.events.insert: Created, or Conflict (409) when the id exists;
\* any insert may fail for another reason (fault)
ProviderAnswer(held, fault) ==
  IF fault THEN "error" ELSE IF held > 0 THEN "conflict" ELSE "created"

(* ------------------------------------------------------------------ *)
(* POST /api/sync-calendar                                            *)
(* ------------------------------------------------------------------ *)

\* res.status(...).send(...) as the handler's last statement
Send(r, resp) == [r EXCEPT !.pc = "done", !.resp = resp, !.sent = @ + 1]

\* an outer catch that logs the error and sends nothing
SyncFailedSilently(r, message) ==
  [r EXCEPT !.pc = "hung",
            !.log = Append(@, [kind |-> "sync", tid |-> <<>>, message |-> message])]

\* res.status(500).send("Sync failed.") of the outer catch, with its console.error
SyncFailed(r, message) ==
  Send([r EXCEPT !.log = Append(@, [kind |-> "sync", tid |-> <<>>, message |-> message])],
       Resp(500, "failed", 0))

\* One pass from the top of the for...of loop to the next await or to the response:
\* the event of the next task is built and its insert is called with the
\* credentials oauth2Client holds at that moment; the loop's end sends the response.
LoopStep(r, creds) ==
  IF r.toSync = <<>>
  THEN Send(r, Resp(200, "complete", r.syncedCount))
  ELSE LET task == Head(r.toSync) IN
       IF ~EventBuilds(task)
       THEN SyncFailed(r, "Invalid time value")
       ELSE [r EXCEPT !.pc = "insert",
                      !.pending = [cal |-> creds, eid |-> EventId(task.id), tid |-> task.id,
                                  event |-> Event(task)]]

\* a syncedCount++ placed after the try/catch: every attempt is counted
CountsEveryAttempt(result) == TRUE

\* a count that takes the ignored 409 for a success too
CountsUnlessError(result) == result \in {"created", "conflict"}

\* the await returned without a throw: syncedCount++ runs
CountsAsNew(result) == result = "created"

\* a catch branch without the 409 test
LogsEveryThrow(result) == result # "created"

\* the catch branch whose e.code is not 409: console.error runs
LogsTaskError(result) == result \notin {"created", "conflict"}

\* a catch branch that leaves the loop on an error other than 409
RestUnlessError(toSync, result) == IF result = "error" THEN <<>> ELSE Tail(toSync)

\* the for...of iterator moves to the next task after the try/catch, whatever
\* the insert's outcome
RestOfLoop(toSync, result) == Tail(toSync)

\* the statements after the awaited insert: syncedCount++, or the catch branch
AfterInsert(r) ==
  LET att == [tid |-> r.pending.tid, eid |-> r.pending.eid, cal |-> r.pending.cal,
              res |-> r.result, counted |-> CountsAsNew(r.result)]
      r1  == [r EXCEPT !.attempts = Append(@, att),
                       !.toSync = RestOfLoop(@, r.result),
                       !.pending = NoPending, !.result = "none"]
      r2  == IF CountsAsNew(r.result) THEN [r1 EXCEPT !.syncedCount = @ + 1] ELSE r1
  IN IF LogsTaskError(r.result)
     THEN [r2 EXCEPT !.log = Append(@, [kind |-> "task", tid |-> r.pending.tid,
                                         message |-> "insert failed"])]
     ELSE r2

\* the request arrives: const { uid } = req.body; if (!uid) return 400
SyncRequest(i, uid, src) ==
  /\ FreeSlot(i)
  /\ inv' = [inv EXCEPT ![i] =
       IF uid = Absent
       THEN Send([IdleInv EXCEPT !.src = src], Resp(400, "noUid", 0))
       ELSE [IdleInv EXCEPT !.pc = "readToken", !.uid = uid, !.src = src,
                            !.before = provider[uid]]]

\* a direct POST /api/sync-calendar (the endpoint takes any caller)
DirectSync(i, uid) ==
  /\ SyncRequest(i, uid, "direct")
  /\ UNCHANGED <<settings, tasks, provider, oauthCreds, cron, triggers, calc, events, callback>>

\* a check of the document's existence alone
CredentialDocMissing(doc) == ~doc.exists

\* !tokenDoc.exists || !tokenDoc.data().googleCalendar
CredentialAbsent(doc) == ~doc.exists \/ ~doc.googleCalendar

\* a handler that, besides reading the credential, records the sync in the
\* user's settings collection
TokenDocReadRecording(i, ok) ==
  /\ inv[i].pc = "readToken"
  /\ LET doc == settings[inv[i].uid]["integrations"]
         r == [inv[i] EXCEPT !.reads = Append(@, [doc |-> "settings/integrations",
                                                   held |-> doc])]
     IN IF ~ok
        THEN /\ inv' = [inv EXCEPT ![i] = SyncFailed(r, "store read failed")]
             /\ UNCHANGED oauthCreds
        ELSE IF CredentialAbsent(doc)
        THEN /\ inv' = [inv EXCEPT ![i] = Send(r, Resp(404, "notConnected", 0))]
             /\ UNCHANGED oauthCreds
        ELSE /\ oauthCreds' = doc.access_token
             /\ inv' = [inv EXCEPT ![i] = [r EXCEPT !.pc = "readTasks"]]
  /\ settings' = [settings EXCEPT ![inv[i].uid]["profile"] = NoGoogle]
  /\ UNCHANGED <<tasks, provider, cron, triggers, calc, events, callback>>

\* the awaited read of users/uid/settings/integrations returns (or throws)
TokenDocRead(i, ok) ==
  /\ inv[i].pc = "readToken"
  /\ LET doc == settings[inv[i].uid]["integrations"]
         r == [inv[i] EXCEPT !.reads = Append(@, [doc |-> "settings/integrations",
                                                   held |-> doc])]
     IN IF ~ok
        THEN /\ inv' = [inv EXCEPT ![i] = SyncFailed(r, "store read failed")]
             /\ UNCHANGED oauthCreds
        ELSE IF CredentialAbsent(doc)
        THEN /\ inv' = [inv EXCEPT ![i] = Send(r, Resp(404, "notConnected", 0))]
             /\ UNCHANGED oauthCreds
        ELSE /\ oauthCreds' = doc.access_token
             /\ inv' = [inv EXCEPT ![i] = [r EXCEPT !.pc = "readTasks"]]
  /\ UNCHANGED <<settings, tasks, provider, cron, triggers, calc, events, callback>>

\* a handler without the exists test: tasksDoc.data().list throws into the
\* outer catch
NoTasksAsFailure == Resp(500, "failed", 0)

\* if (!tasksDoc.exists) return res.status(200).send("No tasks to sync.")
NoTasksResponse == Resp(200, "noTasks", 0)

\* the awaited read of users/uid/data/tasks returns (or throws); the filter, the
\* calendar client and the first pass of the loop follow without an await
TasksDocRead(i, ok) ==
  /\ inv[i].pc = "readTasks"
  /\ LET doc == tasks[inv[i].uid]
         r == [inv[i] EXCEPT !.reads = Append(@, [doc |-> "data/tasks", held |-> doc])]
     IN inv' = [inv EXCEPT ![i] =
          IF ~ok THEN SyncFailed(r, "store read failed")
          ELSE IF ~doc.exists
          THEN Send(r, NoTasksResponse)
          ELSE LET sel == TasksToSync(AllTasks(doc))
               IN LoopStep([r EXCEPT !.eligible = sel, !.toSync = sel], oauthCreds)]
  /\ UNCHANGED <<settings, tasks, provider, oauthCreds, cron, triggers, calc, events, callback>>

\* an upsert: the event sent replaces the one held under the identifier
StoredAfterUpsert(held, event, answer) ==
  IF answer \in {"created", "conflict"} THEN event ELSE held

\* calendar.events.insert stores the event sent when the provider creates it and
\* leaves what the calendar holds alone when it answers 409 or fails
StoredAfterInsert(held, event, answer) ==
  IF answer = "created" THEN event ELSE held

\* the provider handles the insert the invocation is awaiting, atomically
ProviderInsert(i, fault) ==
  /\ inv[i].pc = "insert"
  /\ LET p == inv[i].pending
         ans == ProviderAnswer(provider[p.cal][p.eid], fault)
     IN /\ provider' = IF ans = "created"
                       THEN [provider EXCEPT ![p.cal][p.eid] = @ + 1]
                       ELSE provider
        /\ events' = [events EXCEPT ![p.cal][p.eid] = StoredAfterInsert(@, p.event, ans)]
        /\ inv' = [inv EXCEPT ![i].pc = "returned", ![i].result = ans]
  /\ UNCHANGED <<settings, tasks, oauthCreds, cron, triggers, calc, callback>>

\* the awaited insert settles: the rest of this pass and the next pass of the loop
InsertReturn(i) ==
  /\ inv[i].pc = "returned"
  /\ inv' = [inv EXCEPT ![i] = LoopStep(AfterInsert(inv[i]), oauthCreds)]
  /\ UNCHANGED <<settings, tasks, provider, oauthCreds, cron, triggers, calc, events, callback>>

(* ------------------------------------------------------------------ *)
(* GET /api/sync-all-users                                            *)
(* ------------------------------------------------------------------ *)

\* where("googleCalendar.access_token", ">", "")
HasToken(doc) == doc.exists /\ doc.googleCalendar /\ doc.access_token # ""

\* the documents of the "settings" collection group the query matches
Matching == {p \in Users \X DocNames : HasToken(settings[p[1]][p[2]])}

\* the orders in which a snapshot may list a set of documents
Orders(S) == {f \in [1..Cardinality(S) -> S] : \A x \in S : \E k \in DOMAIN f : f[k] = x}

\* snapshot.docs.map(doc => doc.ref.parent.parent.id)
UserIds(docs) == [k \in DOMAIN docs |-> docs[k][1]]

RECURSIVE Dedup(_, _)
Dedup(ids, seen) ==
  IF ids = <<>> THEN <<>>
  ELSE IF Head(ids) \in seen THEN Dedup(Tail(ids), seen)
  ELSE <<Head(ids)>> \o Dedup(Tail(ids), seen \cup {Head(ids)})

\* the user ids used as they come, without the Set
UserIdsAsFound(userIds) == userIds

\* [...new Set(userIds)]
UniqueUserIds(userIds) == Dedup(userIds, {})

\* a loop that stops after its first fetch
FetchedFirstOnly(ids, inFlight) ==
  IF ids = <<>> THEN inFlight ELSE [inFlight EXCEPT ![Head(ids)] = @ + 1]

RECURSIVE Fetched(_, _)
\* the fetch calls of the for...of loop, none awaited
Fetched(ids, inFlight) ==
  IF ids = <<>> THEN inFlight
  ELSE Fetched(Tail(ids), [inFlight EXCEPT ![Head(ids)] = @ + 1])

\* a handler that awaits the fetches and so has sent nothing when the loop ends
ResponseWithheld(uniqueUserIds) == NoResp

\* res.status(200).send(`Sync triggered for ${uniqueUserIds.length} users.`),
\* the statement that follows the loop
FanOutResponse(uniqueUserIds) == Resp(200, "triggered", Len(uniqueUserIds))

\* process.env.CRON_SECRET
CronSecret == "s3cret"

\* the values of the request's authorization header: none, the secret without
\* the scheme, another secret, another case of the scheme, the expected value
AuthHeaders == {Absent, "s3cret", "Bearer other", "bearer s3cret", "Bearer s3cret"}

\* a check that the header is there
AuthorizedIfPresent(header) == header # Absent

\* !(req.headers["authorization"] !== `Bearer ${process.env.CRON_SECRET}`)
Authorized(header) == header = "Bearer " \o CronSecret

\* the request arrives: the CRON_SECRET check, then the discovery query is awaited
CronRequest(header) ==
  /\ cron.pc = "idle"
  /\ cron' = IF Authorized(header)
             THEN [cron EXCEPT !.pc = "query", !.auth = header, !.queried = TRUE]
             ELSE [cron EXCEPT !.pc = "done", !.auth = header,
                               !.resp = Resp(401, "unauthorized", 0)]
  /\ UNCHANGED <<settings, tasks, provider, oauthCreds, inv, triggers, calc, events, callback>>

\* the discovery query throws: the catch answers 500
CronQueryFails ==
  /\ cron.pc = "query"
  /\ cron' = [cron EXCEPT !.pc = "done", !.resp = Resp(500, "cronFailed", 0)]
  /\ UNCHANGED <<settings, tasks, provider, oauthCreds, inv, triggers, calc, events, callback>>

\* the discovery query returns: dedup, one fetch per user, response
CronDiscover ==
  /\ cron.pc = "query"
  /\ \E docs \in Orders(Matching) :
       LET userIds == UserIds(docs)
           uniqueUserIds == UniqueUserIds(userIds)
       IN IF docs = <<>>
          THEN /\ cron' = [cron EXCEPT !.pc = "done", !.resp = Resp(200, "noUsers", 0)]
               /\ UNCHANGED triggers
          ELSE /\ triggers' = Fetched(uniqueUserIds, triggers)
               /\ cron' = [cron EXCEPT !.pc = "done", !.found = userIds,
                                       !.unique = uniqueUserIds,
                                       !.fetched = Fetched(uniqueUserIds, NoFetches),
                                       !.resp = FanOutResponse(uniqueUserIds)]
  /\ UNCHANGED <<settings, tasks, provider, oauthCreds, inv, calc, events, callback>>

\* a fetch reaches POST /api/sync-calendar with body { uid }
TriggerDelivered(i, u) ==
  /\ triggers[u] > 0
  /\ SyncRequest(i, u, "cron")
  /\ triggers' = [triggers EXCEPT ![u] = @ - 1]
  /\ UNCHANGED <<settings, tasks, provider, oauthCreds, cron, calc, events, callback>>

\* a fetch fails (its promise rejects; nothing observes it)
TriggerLost(u) ==
  /\ triggers[u] > 0
  /\ triggers' = [triggers EXCEPT ![u] = @ - 1]
  /\ UNCHANGED <<settings, tasks, provider, oauthCreds, inv, cron, calc, events, callback>>

(* ------------------------------------------------------------------ *)
(* GET /api/callback and the writer of the task store                 *)
(* ------------------------------------------------------------------ *)

\* res.status(500).send("Error connecting Google account.") of the catch
CallbackFailed(c) == [c EXCEPT !.pc = "done", !.resp = Resp(500, "connectFailed", 0)]

\* the request arrives with req.query.code and req.query.state: the two 400s,
\* then oauth2Client.getToken(code) is awaited
CallbackRequest(code, uid) ==
  /\ callback.pc = "idle"
  /\ callback' =
       IF code = Absent
       THEN [callback EXCEPT !.pc = "done", !.resp = Resp(400, "missingCode", 0)]
       ELSE IF uid = Absent
       THEN [callback EXCEPT !.pc = "done", !.code = code,
                             !.resp = Resp(400, "missingState", 0)]
       ELSE [callback EXCEPT !.pc = "getToken", !.code = code, !.uid = uid]
  /\ UNCHANGED <<settings, tasks, provider, oauthCreds, inv, cron, triggers, calc, events>>

\* getToken returns (or throws): oauth2Client.setCredentials(tokens) on the
\* module-level client, then people.get is awaited
CallbackTokens(ok) ==
  /\ callback.pc = "getToken"
  /\ IF ok
     THEN /\ oauthCreds' = callback.code
          /\ callback' = [callback EXCEPT !.pc = "profile"]
     ELSE /\ callback' = CallbackFailed(callback)
          /\ UNCHANGED oauthCreds
  /\ UNCHANGED <<settings, tasks, provider, inv, cron, triggers, calc, events>>

\* people.get returns (or throws): integrationRef.set(...) is awaited
CallbackProfile(ok) ==
  /\ callback.pc = "profile"
  /\ callback' = IF ok THEN [callback EXCEPT !.pc = "store"] ELSE CallbackFailed(callback)
  /\ UNCHANGED <<settings, tasks, provider, oauthCreds, inv, cron, triggers, calc, events>>

\* integrationRef.set({ googleCalendar: {...} }, { merge: true }) is done (or
\* throws): the document of the user named by state holds the tokens of the
\* account that granted access; then the redirect
CallbackStored(ok) ==
  /\ callback.pc = "store"
  /\ IF ok
     THEN /\ settings' = [settings EXCEPT ![callback.uid]["integrations"] =
                                            TokenOf(callback.code)]
          /\ callback' = [callback EXCEPT !.pc = "done", !.resp = Resp(302, "connected", 0)]
     ELSE /\ callback' = CallbackFailed(callback)
          /\ UNCHANGED settings
  /\ UNCHANGED <<tasks, provider, oauthCreds, inv, cron, triggers, calc, events>>

\* the client application, the writer of users/uid/data/tasks, replaces the
\* task list of a user who has one
TaskStoreEdit(u, list) ==
  /\ tasks[u].hasList
  /\ tasks[u].list # list
  /\ tasks' = [tasks EXCEPT ![u] = ListDoc(list)]
  /\ UNCHANGED <<settings, provider, oauthCreds, inv, cron, triggers, calc, events, callback>>

(* ------------------------------------------------------------------ *)
(* Stored data the handlers run against                               *)
(* ------------------------------------------------------------------ *)

IdDash == <<"a", "-", "1">>
IdPlain == <<"a", "1">>
IdUnder == <<"a", "_", "1">>
IdOther == <<"b", "2">>

TaskPool ==
  { Task(IdDash,  "09:00", "10:00", FALSE, "2024-01-01"),
    Task(IdOther, "09:00", "10:00", FALSE, "2024-01-01"),
    Task(IdUnder, "09:00", "10:00", FALSE, "tomorrow"),
    Task(IdUnder, "09:00", "10:00", FALSE, "2024-01-01"),
    Task(IdPlain, "09:00", "10:00", TRUE,  "2024-01-01") }

EventIds == {EventId(t.id) : t \in TaskPool}

SeqsUpTo(S, n) == UNION {[1..k -> S] : k \in 0..n}

TaskDocs == {NoTasksDoc, NoListDoc} \cup {ListDoc(l) : l \in SeqsUpTo(TaskPool, MaxTasks)}

\* the settings documents of user u: "integrations" is the one callback writes
\* and sync reads; any other document of the collection group is "profile"
SettingsOf(u, ints, profs) ==
  {[d \in DocNames |-> IF d = "integrations" THEN a ELSE b] : a \in ints, b \in profs}

\* the stores the executor is run against: every task list of u1, with or
\* without a credential; u2 is a second tenant with one task
ExecSettings ==
  {[u \in Users |-> IF u = "u1" THEN a ELSE b] :
     a \in SettingsOf("u1", {NoDoc, NoGoogle, TokenOf("u1")}, {NoDoc}),
     b \in SettingsOf("u2", {TokenOf("u2")}, {NoDoc})}

ExecTasks ==
  {[u \in Users |-> IF u = "u1" THEN a ELSE b] :
     a \in TaskDocs,
     b \in {ListDoc(<<Task(IdDash, "09:00", "10:00", FALSE, "2024-01-01")>>)}}

InitWith(settingsSet, tasksSet) ==
  /\ settings \in settingsSet
  /\ tasks \in tasksSet
  /\ provider = [c \in Users |-> [e \in EventIds |-> 0]]
  /\ oauthCreds = NoCreds
  /\ inv = [i \in Slots |-> IdleInv]
  /\ cron = IdleCron
  /\ triggers = NoFetches
  /\ calc = NoCalc
  /\ events = [c \in Users |-> [e \in EventIds |-> NoEvent]]
  /\ callback = IdleCallback

\* the stores the fan-out is run against: every combination of settings
\* documents, each user with no tasks document, a well-formed task or a malformed one
FanSettings ==
  {[u \in Users |-> IF u = "u1" THEN a ELSE b] :
     a \in SettingsOf("u1", {NoDoc, NoGoogle, TokenOf("u1")}, {NoDoc, TokenOf("u1")}),
     b \in SettingsOf("u2", {NoDoc, NoGoogle, TokenOf("u2")}, {NoDoc, TokenOf("u2")})}

FanTasks ==
  [Users -> {NoTasksDoc,
             ListDoc(<<Task(IdDash, "09:00", "10:00", FALSE, "2024-01-01")>>),
             ListDoc(<<Task(IdUnder, "09:00", "10:00", FALSE, "tomorrow")>>)}]

Init == InitWith(FanSettings, FanTasks)

InitSync == InitWith(ExecSettings, ExecTasks)

\* the steps of POST /api/sync-calendar invocations
SyncNext ==
  \/ \E i \in Slots, u \in Users \cup {Absent} : DirectSync(i, u)
  \/ \E i \in Slots, ok \in BOOLEAN : TokenDocRead(i, ok)
  \/ \E i \in Slots, ok \in BOOLEAN : TasksDocRead(i, ok)
  \/ \E i \in Slots, fault \in BOOLEAN : ProviderInsert(i, fault)
  \/ \E i \in Slots : InsertReturn(i)

\* the steps of GET /api/sync-all-users and of the fetch calls it issues
FanNext ==
  \/ \E header \in AuthHeaders : CronRequest(header)
  \/ CronQueryFails
  \/ CronDiscover
  \/ \E i \in Slots, u \in Users : TriggerDelivered(i, u)
  \/ \E u \in Users : TriggerLost(u)

Next == SyncNext \/ FanNext

\* the steps of GET /api/callback
CallbackNext ==
  \/ \E code \in Users \cup {Absent}, uid \in Users \cup {Absent} : CallbackRequest(code, uid)
  \/ \E ok \in BOOLEAN : CallbackTokens(ok)
  \/ \E ok \in BOOLEAN : CallbackProfile(ok)
  \/ \E ok \in BOOLEAN : CallbackStored(ok)

\* the task of user u1 as first stored, and what its owner makes of it later:
\* another text, other times, completed
FirstTask == Task(IdDash, "09:00", "10:00", FALSE, "2024-01-01")
Retitled(task) == [x \in DOMAIN task \cup {"text"} |-> IF x = "text" THEN "renamed" ELSE task[x]]
Retimed(task) == [task EXCEPT !.startTime = "10:00"]
Completed(task) == [task EXCEPT !.completed = TRUE]

\* the task lists the client application writes: the task as first stored,
\* edited, or removed
EditedLists ==
  {<<FirstTask>>, <<Retitled(FirstTask)>>, <<Retimed(FirstTask)>>, <<Completed(FirstTask)>>,
   <<>>}

\* the stores at the start of the service's life: nobody has connected a
\* calendar; u1 has a task list, u2 has no tasks document
InitCore ==
  InitWith({[u \in Users |-> [d \in DocNames |-> NoDoc]]},
           {[u \in Users |-> IF u = "u1" THEN ListDoc(<<FirstTask>>) ELSE NoTasksDoc]})

CoreNext ==
  \/ SyncNext
  \/ FanNext
  \/ CallbackNext
  \/ \E u \in Users, list \in EditedLists : TaskStoreEdit(u, list)

\* the service with the two writers of its stores: the authorization callback
\* and the client application
SpecCore == InitCore /\ [][CoreNext]_vars

\* the whole service: the fan-out scheduler and the syncs it and others start
Spec == Init /\ [][Next]_vars

\* the sync executor alone, over every task list
SpecSync == InitSync /\ [][SyncNext]_vars

\* every awaited store read and provider insert of an invocation settles, and
\* the event loop then resumes the handler
SyncFairness ==
  \A i \in Slots :
    /\ WF_vars(\E ok \in BOOLEAN : TokenDocRead(i, ok))
    /\ WF_vars(\E ok \in BOOLEAN : TasksDocRead(i, ok))
    /\ WF_vars(\E fault \in BOOLEAN : ProviderInsert(i, fault))
    /\ WF_vars(InsertReturn(i))

\* the sync executor whose awaited operations all settle
SpecSyncLive == InitSync /\ [][SyncNext]_vars /\ SyncFairness

(* ------------------------------------------------------------------ *)
(* The task filter on its own                                         *)
(* ------------------------------------------------------------------ *)

\* the values a stored startTime or endTime takes: missing, empty, a time of day
TimeValues == {Absent, "", "09:00"}

FilterPool ==
  {Task(id, st, en, comp, "2024-01-01") :
     id \in {IdDash, IdOther}, st \in TimeValues, en \in TimeValues, comp \in BOOLEAN}

InitFilter ==
  /\ settings \in {[u \in Users |-> [d \in DocNames |-> NoDoc]]}
  /\ tasks \in {[u \in Users |-> NoTasksDoc]}
  /\ provider = [c \in Users |-> [e \in EventIds |-> 0]]
  /\ oauthCreds = NoCreds
  /\ inv = [i \in Slots |-> IdleInv]
  /\ cron = IdleCron
  /\ triggers = NoFetches
  /\ calc \in {[op |-> "list", in |-> l, out |-> <<>>] : l \in SeqsUpTo(FilterPool, MaxTasks)}
  /\ events = [c \in Users |-> [e \in EventIds |-> NoEvent]]
  /\ callback = IdleCallback

\* const tasksToSync = allTasks.filter(...) applied to the list given
ApplyFilter ==
  /\ calc.op = "list"
  /\ calc' = [calc EXCEPT !.op = "filtered", !.out = TasksToSync(calc.in)]
  /\ UNCHANGED <<settings, tasks, provider, oauthCreds, inv, cron, triggers,
                  events, callback>>

SpecFilter == InitFilter /\ [][ApplyFilter]_vars

(* ------------------------------------------------------------------ *)
(* The event identifier on its own                                    *)
(* ------------------------------------------------------------------ *)

\* characters of a task identifier: letters of both cases, a digit, and
\* characters the pattern removes
IdChars == {"a", "B", "1", "-", "_", "!"}

ExampleId == <<"a", "b", "c", "-", "1", "2", "3", "!", "@", "#">>

TaskIds == SeqsUpTo(IdChars, MaxIdLen) \cup {ExampleId}

InitEventId ==
  /\ settings \in {[u \in Users |-> [d \in DocNames |-> NoDoc]]}
  /\ tasks \in {[u \in Users |-> NoTasksDoc]}
  /\ provider = [c \in Users |-> [e \in EventIds |-> 0]]
  /\ oauthCreds = NoCreds
  /\ inv = [i \in Slots |-> IdleInv]
  /\ cron = IdleCron
  /\ triggers = NoFetches
  /\ calc \in {[op |-> "id", in |-> id, out |-> <<>>] : id \in TaskIds}
  /\ events = [c \in Users |-> [e \in EventIds |-> NoEvent]]
  /\ callback = IdleCallback

\* const eventId = `momentum${...}` computed for the task identifier given, once
\* and then once more (a later pass or a later sync over the same task)
ApplyEventId ==
  /\ calc.op \in {"id", "idOnce"}
  /\ calc' = [calc EXCEPT !.op = IF calc.op = "id" THEN "idOnce" ELSE "idTwice",
                          !.out = Append(@, EventId(calc.in))]
  /\ UNCHANGED <<settings, tasks, provider, oauthCreds, inv, cron, triggers,
                  events, callback>>

SpecEventId == InitEventId /\ [][ApplyEventId]_vars

(* ------------------------------------------------------------------ *)
(* Claims                                                             *)
(* ------------------------------------------------------------------ *)

Range(f) == {f[k] : k \in DOMAIN f}

\* a field is present: it is stored and not the empty string
Present(v) == v # Absent /\ v # ""

\* the places of a list whose task has a start time, an end time and is not completed
EligiblePlaces(list) ==
  {k \in DOMAIN list :
     Present(list[k].startTime) /\ Present(list[k].endTime) /\ list[k].completed = FALSE}

\* C10: the task filter selects exactly the eligible tasks: the selection lists the
\* tasks at the eligible places of the list, each once, in the order of the list,
\* and the empty list gives the empty selection.
C10_FilterSelectsEligible ==
  calc.op = "filtered" =>
    /\ Len(calc.out) = Cardinality(EligiblePlaces(calc.in))
    /\ \E f \in [DOMAIN calc.out -> EligiblePlaces(calc.in)] :
         /\ \A j, k \in DOMAIN calc.out : j < k => f[j] < f[k]
         /\ \A k \in DOMAIN calc.out : calc.out[k] = calc.in[f[k]]
    /\ (calc.in = <<>> => calc.out = <<>>)

\* a completed task in front of an eligible one was dropped and the eligible one kept
C10_Witness ==
  /\ calc.op = "filtered"
  /\ Len(calc.in) = 2
  /\ calc.in[1].completed /\ Present(calc.in[1].startTime) /\ Present(calc.in[1].endTime)
  /\ calc.out = <<calc.in[2]>>

\* C3: one syncAll call makes exactly one fetch for each user that owns a discovered
\* record and none for any other user, also when a user owns several records.
C3_OneTriggerPerUser ==
  cron.pc = "done" /\ cron.resp.kind = "triggered" =>
    \A u \in Users : cron.fetched[u] = IF u \in Range(cron.found) THEN 1 ELSE 0

\* two users were discovered, one of them through two records
C3_Witness ==
  /\ cron.pc = "done"
  /\ cron.resp.kind = "triggered"
  /\ Cardinality(Range(cron.found)) = 2
  /\ Len(cron.found) > 2

\* the invocations the scheduler's fetches started
Triggered == {i \in Slots : inv[i].src = "cron"}

\* C4: syncAll is fire-and-forget: once the discovery query has returned nothing
\* holds the handler back, and as soon as a fetch has been issued the response is
\* sent, whatever the triggered syncs have or have not done.
C4_FireAndForget ==
  /\ cron.pc = "query" => ENABLED CronDiscover
  /\ (\E u \in Users : cron.fetched[u] > 0) =>
       cron.pc = "done" /\ cron.resp.status = 200 /\ cron.resp.kind = "triggered"

\* the response for two users is sent and neither sync has started
C4_Witness ==
  /\ cron.resp.kind = "triggered"
  /\ cron.resp.count = 2
  /\ \A u \in Users : triggers[u] = 1
  /\ Triggered = {}

\* C5: an authorized syncAll whose discovery found records has fetched for every
\* owner and answered 200 with the number of distinct owners, and that stays so
\* whatever becomes of the fetches and of the syncs they start.
C5_BatchIndependentOfSyncs ==
  cron.pc = "done" /\ cron.found # <<>> =>
    /\ cron.resp = [status |-> 200, kind |-> "triggered",
                    count |-> Cardinality(Range(cron.found)), errors |-> <<>>]
    /\ \A u \in Range(cron.found) : cron.fetched[u] >= 1

\* of two triggered syncs one answered 404 and the other 500
C5_Witness ==
  /\ cron.resp.kind = "triggered"
  /\ cron.resp.count = 2
  /\ \E i, j \in Triggered : inv[i].resp.status = 404 /\ inv[j].resp.status = 500

\* the tasks of invocation i whose insert was attempted
Attempted(i) == {inv[i].attempts[k].tid : k \in DOMAIN inv[i].attempts}

\* the console.error entries of invocation i that name a task
TaskErrors(i) == SelectSeq(inv[i].log, LAMBDA e : e.kind = "task")

\* the tasks of invocation i whose insert failed for a reason other than a conflict
FailedInserts(i) ==
  LET failed == SelectSeq(inv[i].attempts, LAMBDA a : a.res = "error")
  IN [k \in DOMAIN failed |-> failed[k].tid]

\* C9: every insert made for a task of user u is authorized with u's own credential.
C9_OwnCredential ==
  \A i \in Slots :
    /\ \A k \in DOMAIN inv[i].attempts : inv[i].attempts[k].cal = inv[i].uid
    /\ inv[i].pc \in {"insert", "returned"} => inv[i].pending.cal = inv[i].uid

\* C8: a malformed eligible task is isolated: the sync still answers 200, has one
\* error for that task and has attempted every eligible task that follows it.
C8_MalformedIsolated ==
  \A i \in Slots :
    inv[i].pc = "done" =>
      \A k \in DOMAIN inv[i].eligible :
        ~EventBuilds(inv[i].eligible[k]) =>
          /\ inv[i].resp.status = 200
          /\ Len(SelectSeq(inv[i].log, LAMBDA e : e.tid = inv[i].eligible[k].id)) = 1
          /\ \A j \in DOMAIN inv[i].eligible :
               j > k /\ EventBuilds(inv[i].eligible[j]) =>
                 inv[i].eligible[j].id \in Attempted(i)

\* C6: a provider failure on one task does not abort the sync: every eligible
\* task is attempted and the sync answers 200.
C6_ProviderFailureIsolated ==
  \A i \in Slots :
    inv[i].pc = "done" /\ FailedInserts(i) # <<>> =>
      /\ inv[i].resp.status = 200
      /\ Len(inv[i].attempts) = Len(inv[i].eligible)

\* the eligible tasks the task store holds for user u
StoredEligible(u) == TasksToSync(AllTasks(tasks[u]))

\* when invocation i was requested, the provider held an event for the event
\* identifier of every eligible task of its user, who has a credential and tasks
AlreadySynced(i) ==
  /\ inv[i].uid # Absent
  /\ settings[inv[i].uid]["integrations"].googleCalendar
  /\ tasks[inv[i].uid].exists
  /\ \A k \in DOMAIN StoredEligible(inv[i].uid) :
       inv[i].before[EventId(StoredEligible(inv[i].uid)[k].id)] > 0

\* no store read of invocation i threw and the provider answered each of its
\* inserts Created or Conflict
NoOutage(i) ==
  /\ \A k \in DOMAIN inv[i].log : inv[i].log[k].message # "store read failed"
  /\ FailedInserts(i) = <<>>

\* C1: a sync of a user whose eligible tasks all have their event already answers
\* 200 with zero new events and no error, and each of its inserts is a conflict,
\* so that the run adds no event to the provider.
C1_RerunIdempotent ==
  \A i \in Slots :
    inv[i].pc = "done" /\ AlreadySynced(i) /\ NoOutage(i) =>
      /\ inv[i].resp = [status |-> 200, kind |-> "complete", count |-> 0, errors |-> <<>>]
      /\ inv[i].log = <<>>
      /\ \A k \in DOMAIN inv[i].attempts : inv[i].attempts[k].res = "conflict"

\* C7 as stated: the response of a completed sync lists one error for each task
\* whose insert failed for a reason other than a conflict, and no other.
C7_ErrorListInResult ==
  \A i \in Slots :
    inv[i].pc = "done" /\ inv[i].resp.kind = "complete" =>
      inv[i].resp.errors = FailedInserts(i)

\* C7, amended: the console has one task error for each task whose insert failed
\* for a reason other than a conflict, in the order of the attempts, and none for
\* an insert that succeeded or conflicted; the response lists no error.
C7_ErrorsLoggedNotReturned ==
  \A i \in Slots :
    /\ [k \in DOMAIN TaskErrors(i) |-> TaskErrors(i)[k].tid] = FailedInserts(i)
    /\ inv[i].resp.errors = <<>>

\* a completed sync with one insert created and one failed
C7_Witness ==
  \E i \in Slots :
    /\ inv[i].pc = "done"
    /\ inv[i].resp.kind = "complete"
    /\ Len(FailedInserts(i)) = 1
    /\ \E k \in DOMAIN inv[i].attempts : inv[i].attempts[k].res = "created"

\* the attempts, of any invocation, counted as a new event e of calendar c
CountedAsNew(c, e) ==
  {p \in Slots \X (1..MaxTasks) :
     /\ p[2] \in DOMAIN inv[p[1]].attempts
     /\ inv[p[1]].attempts[p[2]].cal = c
     /\ inv[p[1]].attempts[p[2]].eid = e
     /\ inv[p[1]].attempts[p[2]].counted}

\* C2: under every interleaving of sync invocations a calendar holds at most one
\* event per event identifier, and an event identifier of a calendar is counted
\* as newly created by at most one attempt of one invocation.
C2_NoDuplicateEvents ==
  \A c \in Users, e \in EventIds :
    /\ provider[c][e] <= 1
    /\ Cardinality(CountedAsNew(c, e)) <= 1

\* two invocations for one user overlap: the provider has created the event for
\* one, which has not resumed yet, and the other already got its conflict
C2_Witness ==
  \E i, j \in Slots :
    /\ i # j
    /\ inv[i].uid = inv[j].uid
    /\ inv[i].pc = "returned" /\ inv[i].result = "created"
    /\ \E k \in DOMAIN inv[j].attempts :
         /\ inv[j].attempts[k].eid = inv[i].pending.eid
         /\ inv[j].attempts[k].cal = inv[i].pending.cal
         /\ inv[j].attempts[k].res = "conflict"

\* the characters of the classes a-z, A-Z and 0-9
Letters ==
  {"a","b","c","d","e","f","g","h","i","j","k","l","m",
   "n","o","p","q","r","s","t","u","v","w","x","y","z"}
Capitals ==
  {"A","B","C","D","E","F","G","H","I","J","K","L","M",
   "N","O","P","Q","R","S","T","U","V","W","X","Y","Z"}
Digits == {"0","1","2","3","4","5","6","7","8","9"}

\* the places of a task identifier that hold a letter or a digit
KeptPlaces(id) == {k \in DOMAIN id : id[k] \in Letters \cup Capitals \cup Digits}

\* C11: the event identifier of a task identifier is "momentum" followed by the
\* characters at the letter and digit places of the task identifier, each once and
\* in their order, and computing it again for the same identifier gives the same.
C11_EventIdSanitized ==
  \A n \in DOMAIN calc.out :
    calc.op \in {"idOnce", "idTwice"} =>
      LET e == calc.out[n]
          kept == KeptPlaces(calc.in)
      IN /\ Len(e) = 8 + Cardinality(kept)
         /\ SubSeq(e, 1, 8) = <<"m", "o", "m", "e", "n", "t", "u", "m">>
         /\ \E f \in [1..Cardinality(kept) -> kept] :
              /\ \A j, k \in DOMAIN f : j < k => f[j] < f[k]
              /\ \A k \in DOMAIN f : e[8 + k] = calc.in[f[k]]
         /\ e = calc.out[1]

\* "abc-123!@#" gave "momentumabc123", twice
C11_Witness ==
  /\ calc.op = "idTwice"
  /\ calc.in = ExampleId
  /\ calc.out = << <<"m","o","m","e","n","t","u","m","a","b","c","1","2","3">>,
                   <<"m","o","m","e","n","t","u","m","a","b","c","1","2","3">> >>

\* C12: in a completed sync none of whose inserts failed with a provider error,
\* eligible tasks with different identifiers have different event identifiers,
\* and no insert is answered Conflict because of the event an earlier insert of
\* the same sync created for a task with another identifier.
C12_CollisionResistant ==
  \A i \in Slots :
    inv[i].pc = "done" /\ inv[i].resp.kind = "complete" /\ FailedInserts(i) = <<>> =>
      /\ \A j, k \in DOMAIN inv[i].eligible :
           inv[i].eligible[j].id # inv[i].eligible[k].id =>
             EventId(inv[i].eligible[j].id) # EventId(inv[i].eligible[k].id)
      /\ \A j, k \in DOMAIN inv[i].attempts :
           LET a == inv[i].attempts[j]
               b == inv[i].attempts[k]
           IN j < k /\ a.tid # b.tid /\ a.res = "created" /\ a.cal = b.cal /\ a.eid = b.eid =>
                b.res # "conflict"

\* C13: a sync of a user whose credential document is missing or has no
\* googleCalendar map never reads the tasks document and never calls an insert,
\* and once its read of the credential document has returned it has answered 404,
\* having read that document only.
C13_NoCredentialFailsFast ==
  \A i \in Slots :
    LET doc == settings[inv[i].uid]["integrations"]
    IN inv[i].uid # Absent /\ (~doc.exists \/ ~doc.googleCalendar) =>
         /\ \A k \in DOMAIN inv[i].reads : inv[i].reads[k].doc # "data/tasks"
         /\ inv[i].pc \notin {"readTasks", "insert", "returned"}
         /\ inv[i].attempts = <<>>
         /\ inv[i].pc = "done" /\ NoOutage(i) =>
              /\ inv[i].resp = [status |-> 404, kind |-> "notConnected",
                                count |-> 0, errors |-> <<>>]
              /\ Len(inv[i].reads) = 1
              /\ inv[i].reads[1].doc = "settings/integrations"

\* a user whose integrations document exists without the googleCalendar map and
\* who has eligible tasks stored got the 404
C13_Witness ==
  \E i \in Slots :
    /\ inv[i].pc = "done"
    /\ inv[i].resp.status = 404
    /\ settings[inv[i].uid]["integrations"].exists
    /\ StoredEligible(inv[i].uid) # <<>>

\* the inserts of invocation i the provider answered Created
CreatedInserts(i) == SelectSeq(inv[i].attempts, LAMBDA a : a.res = "created")

\* C14: the count a sync holds, and reports when it completes, is the number of
\* its inserts so far that the provider answered Created: an insert answered
\* Created is counted, one answered Conflict or failed is not.
C14_CountIsCreated ==
  \A i \in Slots :
    /\ inv[i].syncedCount = Len(CreatedInserts(i))
    /\ \A k \in DOMAIN inv[i].attempts :
         inv[i].attempts[k].counted <=> inv[i].attempts[k].res = "created"
    /\ inv[i].resp.kind = "complete" => inv[i].resp.count = Len(CreatedInserts(i))

\* a completed sync reports 1 after one insert was created and one was not
C14_Witness ==
  \E i \in Slots :
    /\ inv[i].resp.kind = "complete"
    /\ inv[i].resp.count = 1
    /\ Len(inv[i].attempts) = 2
    /\ \E k \in DOMAIN inv[i].attempts : inv[i].attempts[k].res = "conflict"

\* C15: a syncAll request whose authorization header is not "Bearer " followed by
\* the configured secret has been answered 401 as soon as it is handled, and has
\* run no discovery query, issued no fetch and started no sync.
C15_SecretGuardsSyncAll ==
  cron.pc # "idle" /\ cron.auth # "Bearer s3cret" =>
    /\ cron.pc = "done"
    /\ cron.resp = [status |-> 401, kind |-> "unauthorized", count |-> 0, errors |-> <<>>]
    /\ ~cron.queried
    /\ cron.found = <<>>
    /\ cron.fetched = NoFetches /\ triggers = NoFetches
    /\ Triggered = {}

\* a request with the right secret in another case of the scheme got the 401
\* while users with a credential were there to be found
C15_Witness ==
  /\ cron.resp.status = 401
  /\ cron.auth = "bearer s3cret"
  /\ Matching # {}

\* C16: a sync that found a credential for its user and no tasks document, both
\* reads having returned, has answered 200 without calling an insert; and a
\* syncAll whose discovery query returned no document has answered 200 with a
\* count of zero, issued no fetch and started no sync.
C16_ZeroWorkSucceeds ==
  /\ \A i \in Slots :
       /\ inv[i].pc = "done"
       /\ Len(inv[i].reads) = 2
       /\ inv[i].reads[1].held.googleCalendar
       /\ ~inv[i].reads[2].held.exists
       /\ NoOutage(i)
       => /\ inv[i].resp = [status |-> 200, kind |-> "noTasks", count |-> 0, errors |-> <<>>]
          /\ inv[i].attempts = <<>>
          /\ inv[i].eligible = <<>>
  /\ cron.pc = "done" /\ cron.queried /\ cron.found = <<>> /\ cron.resp.status # 500 =>
       /\ cron.resp = [status |-> 200, kind |-> "noUsers", count |-> 0, errors |-> <<>>]
       /\ cron.fetched = NoFetches /\ triggers = NoFetches
       /\ Triggered = {}

\* syncAll found no user; then a user without a tasks document connected a
\* calendar and a sync of that user answered 200
C16_Witness ==
  /\ cron.resp.kind = "noUsers"
  /\ \E i \in Slots :
       /\ inv[i].resp.kind = "noTasks"
       /\ settings[inv[i].uid]["integrations"].googleCalendar
       /\ ~tasks[inv[i].uid].exists

\* C17: a sync that was not aborted (it answered with its completion message)
\* made one insert attempt per eligible task, in the order of the filter's
\* result, whatever the outcomes were; and while a sync runs, its attempts so far
\* are the first of its eligible tasks in that order.
C17_AttemptsFollowFilter ==
  \A i \in Slots :
    /\ Len(inv[i].attempts) <= Len(inv[i].eligible)
    /\ \A k \in DOMAIN inv[i].attempts : inv[i].attempts[k].tid = inv[i].eligible[k].id
    /\ inv[i].resp.kind = "complete" => Len(inv[i].attempts) = Len(inv[i].eligible)

\* a completed sync attempted two tasks with colliding event identifiers in list
\* order, the first insert failing and the second being created
C17_Witness ==
  \E i \in Slots :
    /\ inv[i].resp.kind = "complete"
    /\ Len(inv[i].attempts) = 2
    /\ inv[i].attempts[1].res = "error"
    /\ inv[i].attempts[2].res = "created"
    /\ inv[i].attempts[1].eid = inv[i].attempts[2].eid
    /\ inv[i].attempts[1].tid # inv[i].attempts[2].tid

\* C18: no step of the service changes or removes an event a calendar holds:
\* whatever a sync does, and whatever has become of the task since, an event that
\* is there before the step is there after it with the same content.
C18_InsertOnly ==
  [][\A c \in Users, e \in EventIds :
       provider[c][e] > 0 =>
         /\ provider'[c][e] >= provider[c][e]
         /\ events'[c][e] = events[c][e]]_vars

\* a sync of u1 created the event, the task then got other times, and a later
\* sync got the conflict for it: the calendar holds the event of the first times
C18_Witness ==
  \E i \in Slots :
    /\ inv[i].pc = "done"
    /\ inv[i].uid # Absent
    /\ tasks[inv[i].uid].list = <<Retimed(FirstTask)>>
    /\ Len(inv[i].attempts) = 1
    /\ inv[i].attempts[1].res = "conflict"
    /\ inv[i].attempts[1].cal = inv[i].uid
    /\ events[inv[i].uid][inv[i].attempts[1].eid] = Event(FirstTask)
    /\ inv[i].eligible = <<Retimed(FirstTask)>>

\* C19: a step of a sync or of syncAll leaves the credential store and the task
\* store as they are; the credential store changes only in the step in which the
\* authorization callback stores the tokens it obtained, under the integrations
\* document of the user its request names.
C19_CoreReadsOnly ==
  [][/\ SyncNext \/ FanNext => settings' = settings /\ tasks' = tasks
     /\ settings' # settings =>
          /\ callback.pc = "store"
          /\ callback'.resp.kind = "connected"
          /\ settings' = [settings EXCEPT ![callback.uid]["integrations"] =
                                            TokenOf(callback.code)]]_vars

\* the callback has connected a calendar, a syncAll has triggered a sync and that
\* sync has created an event
C19_Witness ==
  /\ callback.resp.kind = "connected"
  /\ cron.resp.kind = "triggered"
  /\ \E i \in Triggered : inv[i].resp.kind = "complete" /\ inv[i].resp.count = 1

\* C20: every sync invocation that was requested eventually has sent one
\* response, with status 200, 404, 400 or 500; no invocation ever has sent two,
\* and a response once sent is never replaced.
C20_RespondsOnce ==
  /\ \A i \in Slots :
       inv[i].pc # "idle" ~>
         inv[i].sent = 1 /\ inv[i].resp.status \in {200, 404, 400, 500}
  /\ [](\A i \in Slots : inv[i].sent <= 1)
  /\ [][\A i \in Slots : inv[i].sent = 1 => inv'[i] = inv[i]]_vars

\* two invocations have both answered, one after a failed and a created insert
\* and the other from the outer catch
C20_Witness ==
  \E i, j \in Slots :
    /\ inv[i].sent = 1 /\ inv[i].resp.kind = "complete"
    /\ Len(FailedInserts(i)) = 1 /\ inv[i].resp.count = 1
    /\ inv[j].sent = 1 /\ inv[j].resp.status = 500

====
